---- MODULE Spec2Model ----
(***************************************************************************)
(* A model of examples/fix_payslip_header.py: the payslip header repair    *)
(* pipeline (extract_filename_hints, parse_header_pairs, rewrite_header,   *)
(* _clean_first_table, convert_with_fix).                                  *)
(*                                                                         *)
(* Text is a sequence of one-character strings.  Offsets are Python's      *)
(* 0-based offsets; a slice s[a:b] is Slice(s, a, b).                      *)
(***************************************************************************)
EXTENDS Integers, Sequences, FiniteSets, TLC

VARIABLES
    pc,           \* the next step of convert_with_fix
    pdf_path,     \* the input file's name
    md_text,      \* the converter's Markdown (the pipeline's input text)
    header_keys,  \* the keys handed to _clean_first_table
    hints,        \* extract_filename_hints(pdf_path), as parse_header_pairs got it
    header_map,   \* parse_header_pairs' result
    cut_parse,    \* cut_idx as parse_header_pairs computed it
    cut_rewrite,  \* cut_idx as rewrite_header computed it
    rewritten,    \* rewrite_header's result
    fixed_md,     \* _clean_first_table's result: the text written out
    first_out,    \* the output of the previous run, when md_text is that output
    run           \* how many times the pipeline has been started

vars == <<pc, pdf_path, md_text, header_keys, hints, header_map, cut_parse,
          cut_rewrite, rewritten, fixed_md, first_out, run>>

\* ------------------------------------------------------------------------
\* Characters and Python's str primitives
\* ------------------------------------------------------------------------

\* A string literal as a sequence of one-character strings.
Chars(s) == [i \in 1..Len(s) |-> SubSeq(s, i, i)]

UpperSeq == Chars("ABCDEFGHIJKLMNOPQRSTUVWXYZ")
LowerSeq == Chars("abcdefghijklmnopqrstuvwxyz")
DigitSet == {"0", "1", "2", "3", "4", "5", "6", "7", "8", "9"}
UpperSet == {UpperSeq[i] : i \in 1..Len(UpperSeq)}
LowerSet == {LowerSeq[i] : i \in 1..Len(LowerSeq)}
SpaceSet == {" ", "\n", "\t"}

IsDigit(c) == c \in DigitSet
IsUpper(c) == c \in UpperSet
IsAlpha(c) == c \in UpperSet \cup LowerSet
IsUpperOrDigit(c) == c \in UpperSet \cup DigitSet
\* \w of the re module
IsWord(c) == c \in UpperSet \cup LowerSet \cup DigitSet \cup {"_"}
IsSpace(c) == c \in SpaceSet

MinOf(S) == CHOOSE x \in S : \A y \in S : x <= y
MaxOf(S) == CHOOSE x \in S : \A y \in S : x >= y

\* LET x == v IN F(x), with v evaluated once and x bound to its value
Bind(v, F(_)) == CHOOSE r \in {F(x) : x \in {v}} : TRUE

\* s[a:b] for 0 <= a, b
Slice(s, a, b) == SubSeq(s, a + 1, IF b > Len(s) THEN Len(s) ELSE b)
\* s[a:]
From(s, a) == SubSeq(s, a + 1, Len(s))

\* s.startswith(t, a): t occurs in s at offset a
OccursAt(s, t, a) ==
    /\ a + Len(t) <= Len(s)
    /\ \A i \in 1..Len(t) : s[a + i] = t[i]

\* s.find(t): the least offset of t in s, -1 when there is none
Find(s, t) ==
    Bind({a \in 0..(Len(s) - Len(t)) : OccursAt(s, t, a)}, LAMBDA hits :
        IF hits = {} THEN -1 ELSE MinOf(hits))

\* t in s
Contains(s, t) == \E a \in 0..(Len(s) - Len(t)) : OccursAt(s, t, a)

\* str.lower()
LowerChar(c) ==
    IF c \in UpperSet THEN LowerSeq[CHOOSE i \in 1..Len(UpperSeq) : UpperSeq[i] = c]
    ELSE c
Lower(s) == [i \in 1..Len(s) |-> LowerChar(s[i])]

\* str.lstrip(), str.strip()
LStrip(s) ==
    Bind({i \in 1..Len(s) : ~IsSpace(s[i])}, LAMBDA keep :
        IF keep = {} THEN <<>> ELSE SubSeq(s, MinOf(keep), Len(s)))
Strip(s) ==
    Bind({i \in 1..Len(s) : ~IsSpace(s[i])}, LAMBDA keep :
        IF keep = {} THEN <<>> ELSE SubSeq(s, MinOf(keep), MaxOf(keep)))

\* str.replace(c, ""): every occurrence of the character c removed
RECURSIVE RemoveChar(_, _)
RemoveChar(s, c) ==
    IF s = <<>> THEN <<>>
    ELSE IF Head(s) = c THEN RemoveChar(Tail(s), c)
    ELSE <<Head(s)>> \o RemoveChar(Tail(s), c)

\* the index of the first c in s, 0 when there is none
IndexOf(s, c) ==
    Bind({i \in 1..Len(s) : s[i] = c}, LAMBDA cuts :
        IF cuts = {} THEN 0 ELSE MinOf(cuts))

\* str.split(sep) on a one-character separator: the pieces, empty ones kept
RECURSIVE SplitAt(_, _, _)
SplitOn(s, sep) == SplitAt(s, sep, IndexOf(s, sep))
SplitAt(s, sep, cut) ==
    IF cut = 0 THEN <<s>>
    ELSE <<SubSeq(s, 1, cut - 1)>>
         \o Bind(SubSeq(s, cut + 1, Len(s)), LAMBDA t : SplitAt(t, sep, IndexOf(t, sep)))

\* str.splitlines(keepends=True): each line with its terminator
RECURSIVE LinesAt(_, _)
SplitLinesKeep(s) == LinesAt(s, IndexOf(s, "\n"))
LinesAt(s, cut) ==
    IF s = <<>> THEN <<>>
    ELSE IF cut = 0 THEN <<s>>
    ELSE <<SubSeq(s, 1, cut)>>
         \o Bind(SubSeq(s, cut + 1, Len(s)), LAMBDA t : LinesAt(t, IndexOf(t, "\n")))

\* a line without its terminator
Chomp(ln) == IF ln[Len(ln)] = "\n" THEN SubSeq(ln, 1, Len(ln) - 1) ELSE ln

\* str.splitlines(): the lines without their terminators
SplitLines(s) ==
    Bind(SplitLinesKeep(s), LAMBDA ls : [i \in 1..Len(ls) |-> Chomp(ls[i])])

\* "".join(parts)
RECURSIVE Concat(_)
Concat(parts) ==
    IF parts = <<>> THEN <<>> ELSE Head(parts) \o Concat(Tail(parts))

\* sep.join(parts)
RECURSIVE JoinWith(_, _)
JoinWith(parts, sep) ==
    IF parts = <<>> THEN <<>>
    ELSE IF Len(parts) = 1 THEN parts[1]
    ELSE parts[1] \o sep \o JoinWith(Tail(parts), sep)

\* len(s.split()): the number of maximal runs of non-whitespace
WordCount(s) ==
    Cardinality({i \in 1..Len(s) :
        ~IsSpace(s[i]) /\ (i = 1 \/ IsSpace(s[i - 1]))})

\* re.sub(r"\s+", " ", s): every run of whitespace becomes one space
RECURSIVE CollapseSpaces(_)
CollapseSpaces(s) ==
    IF s = <<>> THEN <<>>
    ELSE IF IsSpace(Head(s))
         THEN <<" ">> \o Bind(LStrip(s), LAMBDA t : CollapseSpaces(t))
         ELSE <<Head(s)>> \o Bind(Tail(s), LAMBDA t : CollapseSpaces(t))

\* the elements of seq at the indexes idxs, in order
SelectIdx(seq, idxs) ==
    LET F[n \in 0..Len(seq)] ==
            IF n = 0 THEN <<>>
            ELSE IF n \in idxs THEN Append(F[n - 1], seq[n]) ELSE F[n - 1]
    IN  F[Len(seq)]

\* ------------------------------------------------------------------------
\* The field pattern library (re): a match is [start, end), NoMatch if none
\* ------------------------------------------------------------------------

NoMatch == [start |-> -1, end |-> -1]
IsMatch(m) == m.start # -1
\* m.group(0)
Group(s, m) == Slice(s, m.start, m.end)

\* \b at offset p of s
Boundary(s, p) ==
    (p > 0 /\ IsWord(s[p])) # (p < Len(s) /\ IsWord(s[p + 1]))

\* the length of the maximal run of digits of s that starts at offset p
DigitRun(s, p) ==
    Bind({i \in (p + 1)..Len(s) : ~IsDigit(s[i])}, LAMBDA stops :
        IF stops = {} THEN Len(s) - p ELSE MinOf(stops) - 1 - p)

\* the length of the maximal run of upper-case letters of s from offset p
UpperRun(s, p) ==
    Bind({i \in (p + 1)..Len(s) : ~IsUpper(s[i])}, LAMBDA stops :
        IF stops = {} THEN Len(s) - p ELSE MinOf(stops) - 1 - p)

\* Each XxxEnd(s, p) is the end offset of the pattern's match that starts at
\* offset p, or -1.  A run of digits closed by \b is matched whole or not at
\* all: a shorter prefix is followed by a digit, which is no boundary.

\* date_re = \b\d{2}-\d{2}-\d{4}\b
DateEnd(s, p) ==
    IF /\ p + 10 <= Len(s)
       /\ Boundary(s, p)
       /\ \A i \in {1, 2, 4, 5, 7, 8, 9, 10} : IsDigit(s[p + i])
       /\ s[p + 3] = "-" /\ s[p + 6] = "-"
       /\ Boundary(s, p + 10)
    THEN p + 10 ELSE -1

\* ifsc_re = \b[A-Z]{4}0[A-Z0-9]{6}\b
IfscEnd(s, p) ==
    IF /\ p + 11 <= Len(s)
       /\ Boundary(s, p)
       /\ \A i \in 1..4 : IsUpper(s[p + i])
       /\ s[p + 5] = "0"
       /\ \A i \in 6..11 : IsUpperOrDigit(s[p + i])
       /\ Boundary(s, p + 11)
    THEN p + 11 ELSE -1

\* pan_re = \b[A-Z]{5}[A-Z0-9]{4}[A-Z]\b
PanEnd(s, p) ==
    IF /\ p + 10 <= Len(s)
       /\ Boundary(s, p)
       /\ \A i \in 1..5 : IsUpper(s[p + i])
       /\ \A i \in 6..9 : IsUpperOrDigit(s[p + i])
       /\ IsUpper(s[p + 10])
       /\ Boundary(s, p + 10)
    THEN p + 10 ELSE -1

\* uan_re = \b\d{12}\b
UanEnd(s, p) ==
    IF Boundary(s, p) /\ DigitRun(s, p) = 12 /\ Boundary(s, p + 12)
    THEN p + 12 ELSE -1

\* long_digits_re = \b\d{10,}\b
LongDigitsEnd(s, p) ==
    Bind(DigitRun(s, p), LAMBDA n :
        IF Boundary(s, p) /\ n >= 10 /\ Boundary(s, p + n) THEN p + n ELSE -1)

\* \b\d{1,3}\b (Payable Days)
DaysEnd(s, p) ==
    Bind(DigitRun(s, p), LAMBDA n :
        IF Boundary(s, p) /\ n >= 1 /\ n <= 3 /\ Boundary(s, p + n)
        THEN p + n ELSE -1)

\* pf_re = \b[A-Z]{1,3}/\d+/\d+\b: the letters up to the first "/", the
\* digits up to the second, the digits after it
PfTail(s, q) ==
    Bind(DigitRun(s, q + 1), LAMBDA d2 :
        IF q < Len(s) /\ s[q + 1] = "/" /\ d2 >= 1 /\ Boundary(s, q + 1 + d2)
        THEN q + 1 + d2 ELSE -1)
PfEnd(s, p) ==
    Bind(UpperRun(s, p), LAMBDA k :
    Bind(DigitRun(s, p + k + 1), LAMBDA d1 :
        IF /\ Boundary(s, p)
           /\ k >= 1 /\ k <= 3
           /\ p + k < Len(s) /\ s[p + k + 1] = "/"
           /\ d1 >= 1
        THEN PfTail(s, p + k + 1 + d1) ELSE -1))

\* pattern.finditer(s): the start offsets of the matches.  Every pattern
\* above is closed by \b on both sides, so two matches never overlap.
MatchStarts(End(_, _), s) == {p \in 0..Len(s) : End(s, p) # -1}

\* the match that starts at offset p
MatchFrom(End(_, _), s, p) == [start |-> p, end |-> End(s, p)]

\* pattern.search(s): the leftmost match
Search(End(_, _), s) ==
    Bind(MatchStarts(End, s), LAMBDA hits :
        IF hits = {} THEN NoMatch ELSE MatchFrom(End, s, MinOf(hits)))

\* re.fullmatch(r"\d{4,}", s)
FullDigits4Plus(s) == Len(s) >= 4 /\ \A i \in 1..Len(s) : IsDigit(s[i])
\* re.fullmatch(r"\d{4,8}", s)
FullDigits4To8(s) == FullDigits4Plus(s) /\ Len(s) <= 8
\* re.fullmatch(r"[A-Za-z]+", s)
FullAlpha(s) == Len(s) >= 1 /\ \A i \in 1..Len(s) : IsAlpha(s[i])
\* re.fullmatch(r"[A-Z][a-zA-Z]+", s)
CapWord(s) == Len(s) >= 2 /\ IsUpper(s[1]) /\ \A i \in 2..Len(s) : IsAlpha(s[i])
\* re.fullmatch(r"[A-Z][a-zA-Z]+ [A-Z][a-zA-Z]+", s): the words hold no space,
\* so the match is the split on " "
FullTwoCapWords(s) ==
    Bind(SplitOn(s, " "), LAMBDA w :
        Len(w) = 2 /\ CapWord(w[1]) /\ CapWord(w[2]))
\* re.fullmatch(r"[A-Z][a-zA-Z]+(?: [A-Z][a-zA-Z]+){1,2}", s)
FullNameShape(s) ==
    Bind(SplitOn(s, " "), LAMBDA w :
        Len(w) \in {2, 3} /\ \A i \in 1..Len(w) : CapWord(w[i]))
\* str.isdigit() on a non-empty string
IsDigitStr(s) == Len(s) >= 1 /\ \A i \in 1..Len(s) : IsDigit(s[i])

\* ------------------------------------------------------------------------
\* dict: a sequence of [k, v] entries in insertion order, keys distinct
\* ------------------------------------------------------------------------

EmptyMap == <<>>
Keys(m) == {m[i].k : i \in 1..Len(m)}
HasKey(m, key) == key \in Keys(m)
\* m.get(key): the value, <<>> standing for None (both are falsy)
Get(m, key) ==
    IF HasKey(m, key) THEN m[CHOOSE i \in 1..Len(m) : m[i].k = key].v ELSE <<>>
\* m[key] = val
Put(m, key, val) ==
    IF HasKey(m, key)
    THEN [i \in 1..Len(m) |-> IF m[i].k = key THEN [k |-> key, v |-> val] ELSE m[i]]
    ELSE Append(m, [k |-> key, v |-> val])
\* "if cond: m[key] = val"
PutIf(cond, m, key, val) == IF cond THEN Put(m, key, val) ELSE m

\* the least index of seq whose element satisfies P, 0 when there is none
FirstIdx(seq, P(_)) ==
    Bind({i \in 1..Len(seq) : P(seq[i])}, LAMBDA hits :
        IF hits = {} THEN 0 ELSE MinOf(hits))

\* ------------------------------------------------------------------------
\* extract_filename_hints
\* ------------------------------------------------------------------------

\* pdf_path.stem: the file name without its last suffix
Stem(name) ==
    Bind({i \in 1..Len(name) : name[i] = "."}, LAMBDA dots :
        IF dots = {} THEN name
        ELSE IF MaxOf(dots) > 1 /\ MaxOf(dots) < Len(name)
             THEN SubSeq(name, 1, MaxOf(dots) - 1)
             ELSE name)

\* a guard that lets two-token names through
HintsGuardTwo(parts) == Len(parts) >= 2

\* the guard "if len(parts) >= 3"
HintsGuard(parts) == Len(parts) >= 3

\* maybe_name = parts[-3] + " " + parts[-2]
MaybeName(parts) == parts[Len(parts) - 2] \o <<" ">> \o parts[Len(parts) - 1]

\* lines 66-75, on the tokens of the stem
HintsOf(parts) ==
    Bind(PutIf(FullDigits4Plus(parts[Len(parts)]), EmptyMap, "EmpNo",
               parts[Len(parts)]), LAMBDA h1 :
        IF FullAlpha(parts[Len(parts) - 1]) /\ Len(parts) >= 4
        THEN Bind(MaybeName(parts), LAMBDA maybe_name :
                 PutIf(FullTwoCapWords(maybe_name), h1, "Name", maybe_name))
        ELSE h1)

extract_filename_hints(path) ==
    Bind(Stem(path), LAMBDA stem :
    Bind(SplitOn(stem, "_"), LAMBDA parts :
        IF HintsGuard(parts) THEN HintsOf(parts) ELSE EmptyMap))

\* ------------------------------------------------------------------------
\* The header block locator (the same loop in parse_header_pairs and in
\* rewrite_header)
\* ------------------------------------------------------------------------

Markers == <<<<"\n", "|", " ">>, <<"\n", "#", "#", " ">>, <<"\n", "#", " ">>>>

CutIndex(text) ==
    Bind({Find(text, Markers[i]) : i \in 1..Len(Markers)} \ {-1}, LAMBDA found :
        IF found = {} THEN Len(text) ELSE MinOf(found))

\* lines = [ln.strip() for ln in header_block.splitlines() if ln.strip()]
HeaderLines(header_block) ==
    Bind(SplitLines(header_block), LAMBDA raw :
    Bind([i \in 1..Len(raw) |-> Strip(raw[i])], LAMBDA stripped :
        SelectIdx(stripped, {i \in 1..Len(raw) : stripped[i] # <<>>})))

\* ------------------------------------------------------------------------
\* parse_header_pairs: the join line
\* ------------------------------------------------------------------------

\* "date_re.search(ln) and ifsc_re.search(ln)"
IsJoinLine(ln) == MatchStarts(DateEnd, ln) # {} /\ MatchStarts(IfscEnd, ln) # {}

\* rest taken from where the date starts, not from where it ends
RestFromDateStart(join_line, date_m) ==
    IF IsMatch(date_m) THEN date_m.start ELSE 0

\* where rest starts in join_line:
\* rest = join_line[date_m.end():] if date_m else join_line
RestOffset(join_line, date_m) == IF IsMatch(date_m) THEN date_m.end ELSE 0

\* the longest \d{10,} match of rest2 that starts before the IFSC match;
\* the first of the longest ("len(m.group(0)) > len(acct_m.group(0))")
LongestFirst(rest2, cands) ==
    MinOf({p \in cands : \A q \in cands :
              LongDigitsEnd(rest2, p) - p >= LongDigitsEnd(rest2, q) - q})
AcctMatch(rest2, ifsc_m) ==
    Bind({p \in MatchStarts(LongDigitsEnd, rest2) :
             IsMatch(ifsc_m) /\ p < ifsc_m.start}, LAMBDA cands :
        IF cands = {} THEN NoMatch
        ELSE Bind(LongestFirst(rest2, cands), LAMBDA p :
                 MatchFrom(LongDigitsEnd, rest2, p)))

\* between = rest2[days_m.end() : acct_m.start()]: days_m.end() is an offset
\* of rest, acct_m.start() an offset of rest2; both are used on rest2
BankNameBetween(rest2, days_m, acct_m) == Slice(rest2, days_m.end, acct_m.start)

\* The matches of the join line.  date_m is in join_line's offsets, days_m in
\* rest's, ifsc_m and acct_m in rest2's; off1 and off2 are where rest and
\* rest2 start in join_line.
JoinMatches(join_line) ==
    Bind(Search(DateEnd, join_line), LAMBDA date_m :
    Bind(RestOffset(join_line, date_m), LAMBDA off1 :
    Bind(From(join_line, off1), LAMBDA rest :
    Bind(Search(DaysEnd, rest), LAMBDA days_m :
    Bind(IF IsMatch(days_m) THEN off1 + days_m.end ELSE off1, LAMBDA off2 :
    Bind(From(join_line, off2), LAMBDA rest2 :
    Bind(Search(IfscEnd, rest2), LAMBDA ifsc_m :
    Bind(AcctMatch(rest2, ifsc_m), LAMBDA acct_m :
        [date_m |-> date_m, off1 |-> off1, rest |-> rest, days_m |-> days_m,
         off2 |-> off2, rest2 |-> rest2, ifsc_m |-> ifsc_m,
         acct_m |-> acct_m]))))))))

\* bank_name: None unless both matches exist, else the text between them,
\* stripped and with its whitespace collapsed
BankName(j) ==
    IF IsMatch(j.days_m) /\ IsMatch(j.acct_m)
    THEN Bind(BankNameBetween(j.rest2, j.days_m, j.acct_m), LAMBDA between :
         Bind(Strip(between), LAMBDA t : CollapseSpaces(t)))
    ELSE <<>>

\* after_ifsc, <<>> when there is no IFSC match
AfterIfsc(j) ==
    IF IsMatch(j.ifsc_m)
    THEN Bind(From(j.rest2, j.ifsc_m.end), LAMBDA after :
         Bind(Strip(after), LAMBDA t : CollapseSpaces(t)))
    ELSE <<>>

\* lines 147-189: the fields of the join line, put into header_map in the
\* code's order
JoinPuts(hm, join_line, j) ==
    Bind(PutIf(IsMatch(j.date_m), hm, "Date of Joining",
               Group(join_line, j.date_m)), LAMBDA m1 :
    Bind(PutIf(IsMatch(j.days_m), m1, "Payable Days",
               Group(j.rest, j.days_m)), LAMBDA m2 :
    Bind(PutIf(IsMatch(j.acct_m), m2, "Bank Account",
               Group(j.rest2, j.acct_m)), LAMBDA m3 :
    Bind(PutIf(IsMatch(j.ifsc_m), m3, "IFS Code",
               Group(j.rest2, j.ifsc_m)), LAMBDA m4 :
    Bind(BankName(j), LAMBDA bank_name :
    Bind(PutIf(bank_name # <<>>, m4, "Bank Name", bank_name), LAMBDA m5 :
    Bind(AfterIfsc(j), LAMBDA after_ifsc :
        PutIf(after_ifsc # <<>>, m5, "Location", after_ifsc))))))))

JoinFields(hm, join_line) ==
    Bind(JoinMatches(join_line), LAMBDA j : JoinPuts(hm, join_line, j))

\* ------------------------------------------------------------------------
\* parse_header_pairs
\* ------------------------------------------------------------------------

role_keywords ==
    <<Chars("Engineer"), Chars("Manager"), Chars("Director"), Chars("Analyst"),
      Chars("Developer"), Chars("Consultant"), Chars("Associate"), Chars("Lead"),
      Chars("Specialist"), Chars("Architect")>>

\* "any(k in ln for k in role_keywords) and len(ln.split()) <= 5"
IsRoleLine(ln) ==
    /\ \E i \in 1..Len(role_keywords) : Contains(ln, role_keywords[i])
    /\ WordCount(ln) <= 5

\* UAN: the last \b\d{12}\b match of the header block, <<>> when none
UanOf(header_block) ==
    Bind(MatchStarts(UanEnd, header_block), LAMBDA starts :
        IF starts = {} THEN <<>>
        ELSE Slice(header_block, MaxOf(starts), MaxOf(starts) + 12))

\* lines 119-134: PAN, UAN and PF No. from the whole header block
IdFields(header_block) ==
    Bind(Search(PanEnd, header_block), LAMBDA pan :
    Bind(PutIf(IsMatch(pan), EmptyMap, "PAN", Group(header_block, pan)), LAMBDA m1 :
    Bind(UanOf(header_block), LAMBDA uan :
    Bind(PutIf(uan # <<>>, m1, "UAN", uan), LAMBDA m2 :
    Bind(Search(PfEnd, header_block), LAMBDA pf :
        PutIf(IsMatch(pf), m2, "PF No.", Group(header_block, pf)))))))

\* lines 139-144 and 145: the first line with a date and an IFSC token
JoinStep(hm, lines) ==
    Bind(FirstIdx(lines, IsJoinLine), LAMBDA ji :
        IF ji # 0 THEN JoinFields(hm, lines[ji]) ELSE hm)

\* lines 204-207: the first line with a role keyword and at most 5 words
DesignationStep(hm, lines) ==
    Bind(FirstIdx(lines, IsRoleLine), LAMBDA di :
        PutIf(di # 0 /\ ~HasKey(hm, "Designation"), hm, "Designation", lines[di]))

\* lines 210-216: the first name-shaped line that is not the Designation
NameStep(hm, lines) ==
    Bind(Get(hm, "Designation"), LAMBDA desig :
    Bind({i \in 1..Len(lines) : lines[i] # desig /\ FullNameShape(lines[i])},
         LAMBDA hits :
        PutIf(~HasKey(hm, "Name") /\ hits # {}, hm, "Name", lines[MinOf(hits)])))

\* lines 219-232: EmpNo from the filename hint, else the first line that is a
\* 4-8 digit token not among the values of UAN, Bank Account, Payable Days
EmpNoStep(hm, lines, fhints) ==
    IF HasKey(fhints, "EmpNo") THEN Put(hm, "EmpNo", Get(fhints, "EmpNo"))
    ELSE Bind({v \in {Get(hm, k) : k \in {"UAN", "Bank Account", "Payable Days"}} :
                  IsDigitStr(v)}, LAMBDA used_nums :
         Bind({i \in 1..Len(lines) :
                  FullDigits4To8(lines[i]) /\ lines[i] \notin used_nums},
              LAMBDA hits :
             PutIf(hits # {}, hm, "EmpNo", lines[MinOf(hits)])))

\* the Name hint used only when no Name was found in the text
NameHintIfAbsent(hm, fhints) ==
    PutIf(HasKey(fhints, "Name") /\ ~HasKey(hm, "Name"), hm, "Name",
          Get(fhints, "Name"))

\* lines 235-236: "if 'Name' in hints: header_map['Name'] = hints['Name']"
NameHintStep(hm, fhints) ==
    PutIf(HasKey(fhints, "Name"), hm, "Name", Get(fhints, "Name"))

parse_header_pairs(text, path) ==
    Bind(Slice(text, 0, CutIndex(text)), LAMBDA header_block :
    Bind(HeaderLines(header_block), LAMBDA lines :
    Bind(IdFields(header_block), LAMBDA m3 :
    Bind(JoinStep(m3, lines), LAMBDA m4 :
    Bind(DesignationStep(m4, lines), LAMBDA m5 :
    Bind(NameStep(m5, lines), LAMBDA m6 :
    Bind(extract_filename_hints(path), LAMBDA fhints :
    Bind(EmpNoStep(m6, lines, fhints), LAMBDA m7 :
        NameHintStep(m7, fhints)))))))))

\* ------------------------------------------------------------------------
\* rewrite_header
\* ------------------------------------------------------------------------

\* the canonical field names, in serialization order
order ==
    <<"Name", "Designation", "EmpNo", "PAN", "UAN", "PF No.", "E.S.I. No.",
      "Date of Joining", "Payable Days", "Bank Name", "Bank Account",
      "IFS Code", "Location">>

\* a walk over the mapping's own keys, in insertion order
EmitInsertionOrder(hm) == [i \in 1..Len(hm) |-> hm[i].k]

\* the keys rewrite_header walks: "for key in order"
EmitOrder(hm) == order

\* f"**{key}**: {val}"
FieldLine(key, val) == Chars("**") \o Chars(key) \o Chars("**: ") \o val

\* lines 273-277: one line per key of the walk whose value is truthy
FieldLines(hm, walk) ==
    SelectIdx([i \in 1..Len(walk) |-> FieldLine(walk[i], Get(hm, walk[i]))],
              {i \in 1..Len(walk) : Get(hm, walk[i]) # <<>>})

\* clean_header = "\n".join(lines) + "\n\n"
CleanHeader(hm) ==
    Bind(EmitOrder(hm), LAMBDA walk :
    Bind(FieldLines(hm, walk), LAMBDA lines :
        JoinWith(lines, <<"\n">>) \o <<"\n", "\n">>))

\* rest = md_text[cut_idx:]
BodyFrom(text, cut_idx) == From(text, cut_idx)

rewrite_header(text, hm) ==
    Bind(CutIndex(text), LAMBDA cut_idx : CleanHeader(hm) \o BodyFrom(text, cut_idx))

\* ------------------------------------------------------------------------
\* _clean_first_table
\* ------------------------------------------------------------------------

\* ln.lstrip().startswith("|")
IsTableLine(ln) == Bind(LStrip(ln), LAMBDA b : b # <<>> /\ b[1] = "|")

\* the index of the first table line, 0 when there is none
TableStart(lines) == FirstIdx(lines, IsTableLine)

\* a scan that does not stop at the first line that is no table line: the
\* index after the last table line of the text
TableEndToLast(lines, start) ==
    MaxOf({i \in start..Len(lines) : IsTableLine(lines[i])}) + 1

\* "while end < len(lines) and lines[end].lstrip().startswith('|'): end += 1":
\* the index after the last line of the run that starts at start
TableEnd(lines, start) ==
    Bind({i \in start..Len(lines) : ~IsTableLine(lines[i])}, LAMBDA stops :
        IF stops = {} THEN Len(lines) + 1 ELSE MinOf(stops))

AuxTokens ==
    {Chars("date of joining"), Chars("payable days"), Chars("bank name"),
     Chars("bank account"), Chars("ifs code"), Chars("location")}

\* key_tokens: the lower-cased keys of header_keys and the combined labels
KeyTokens(keys) == {Lower(k) : k \in keys} \cup AuxTokens

\* set(core) <= {"-", ":", " "}
OnlyAlignmentChars(core) == \A i \in 1..Len(core) : core[i] \in {"-", ":", " "}

\* an alignment test that forgets the ":" of "---:" and ":---:"
AlignmentRowNoColon(s) ==
    Bind(Strip(s), LAMBDA body :
        /\ body # <<>> /\ body[1] = "|"
        /\ \A i \in 1..Len(body) : body[i] \in {"-", "|", " "})

is_alignment_row(s) ==
    Bind(Strip(s), LAMBDA body :
        /\ body # <<>> /\ body[1] = "|"
        /\ Bind(RemoveChar(body, "|"), LAMBDA bare :
           Bind(Strip(bare), LAMBDA core : OnlyAlignmentChars(core))))

\* the token test on the line as it is, not lower-cased
HasKeyTokenCased(ln, key_tokens) == \E tok \in key_tokens : Contains(ln, tok)

\* "any(tok in ln_lower for tok in key_tokens)"
HasKeyToken(ln, key_tokens) ==
    Bind(Lower(ln), LAMBDA ln_lower : \E tok \in key_tokens : Contains(ln_lower, tok))

\* the loop body of lines 359-367: whether ln goes to filtered
KeepRow(ln, key_tokens) == is_alignment_row(ln) \/ ~HasKeyToken(ln, key_tokens)

\* lines 358-373, on the table lines[start .. end-1]
FilterTable(text, lines, start, end, key_tokens) ==
    Bind(SelectIdx(lines, {i \in start..(end - 1) : KeepRow(lines[i], key_tokens)}),
         LAMBDA filtered :
        IF filtered = SubSeq(lines, start, end - 1) THEN text
        ELSE Concat(SubSeq(lines, 1, start - 1)) \o Concat(filtered)
             \o Concat(SubSeq(lines, end, Len(lines))))

clean_first_table(text, keys) ==
    Bind(SplitLinesKeep(text), LAMBDA lines :
    Bind(TableStart(lines), LAMBDA start :
        IF start = 0 THEN text
        ELSE Bind(TableEnd(lines, start), LAMBDA end :
             Bind(KeyTokens(keys), LAMBDA key_tokens :
                 FilterTable(text, lines, start, end, key_tokens)))))

\* the header_keys convert_with_fix passes: the 13 canonical names
CanonicalKeys == {Chars(order[i]) : i \in 1..Len(order)}

\* ------------------------------------------------------------------------
\* Bounds and input pools
\* ------------------------------------------------------------------------

MaxRuns == 2
MaxDocLines == 2
MaxTableLines == 3
MaxSegs == 4
MaxTokens == 4
MaxMapLen == 3

\* all sequences over S of length 0..n
SeqsUpTo(S, n) == UNION {[1..k -> S] : k \in 0..n}

\* each line followed by "\n"
Lined(ls) == Concat([i \in 1..Len(ls) |-> ls[i] \o <<"\n">>])

LinePool ==
    {Chars("Asha Rao"),
     Chars("Lead Engineer"),
     Chars("4711"),
     Chars("ABCDE1234F 123456789012 AB/1234/5678"),
     Chars("12-04-2019 26 State Bank 1234567890123 SBIN0001234 Mumbai"),
     Chars("01-02-2020 30 HDFC 222222222222 HDFC0000001"),
     Chars("| PAN ABCDE1234F | 26 |"),
     Chars("| Basic | 1000 |"),
     Chars("# Payslip"),
     <<>>}

Docs == {Lined(ls) : ls \in SeqsUpTo(LinePool, MaxDocLines)}

PathBoth == Chars("MT_Payslip_6_2024_Mainak_Chhari_527564.pdf")
PathEmpNo == Chars("slip_2024_9001.pdf")
PathNone == Chars("payslip.pdf")

\* lines of a document that already has a table: rows, an alignment row, a
\* row with leaked header text, an indented row, plain text, a blank line
TablePool ==
    {Chars("| Item | Amount |"),
     Chars("| --- | ---: |"),
     Chars("| PAN ABCDE1234F | 26 |"),
     Chars("  | Bank Name | HDFC |"),
     Chars("Net pay 1000"),
     <<>>}

\* with and without the newline that ends the last line
TableDocs ==
    LET full == {Chars("Mainak Chhari\n") \o Lined(ls) :
                    ls \in SeqsUpTo(TablePool, MaxTableLines)}
    IN  full \cup {SubSeq(d, 1, Len(d) - 1) : d \in full}

\* header_keys other than the canonical names: a key an alignment row holds
OddKeys == {Chars("PAN"), Chars("---")}

SegPool ==
    {Chars("12-04-2019"), Chars("26"), Chars("Bank"), Chars("1234567890"),
     Chars("SBIN0001234")}

JoinDocs ==
    {JoinWith(segs, <<" ">>) \o <<"\n">> : segs \in SeqsUpTo(SegPool, MaxSegs) \ {<<>>}}

TokenPool ==
    {Chars("31"), Chars("527564"), Chars("Mainak"), Chars("Chhari"),
     Chars("chhari")}

TokenPaths ==
    {JoinWith(toks, <<"_">>) \o Chars(".pdf") :
        toks \in SeqsUpTo(TokenPool, MaxTokens) \ {<<>>}} \cup {PathBoth}

\* header mappings: the keys in any insertion order, each with a value
MapKeyPool == {"Location", "PAN", "Name", "E.S.I. No.", "Bank Name"}
MapValue(k) ==
    CASE k = "Location" -> Chars("Mumbai")
      [] k = "PAN" -> Chars("ABCDE1234F")
      [] k = "Name" -> Chars("Mainak Chhari")
      [] k = "E.S.I. No." -> Chars("31")
      [] OTHER -> Chars("State Bank")
MapOf(ks) == [i \in 1..Len(ks) |-> [k |-> ks[i], v |-> MapValue(ks[i])]]
Maps ==
    {MapOf(ks) : ks \in {q \in SeqsUpTo(MapKeyPool, MaxMapLen) :
                            \A i, j \in 1..Len(q) : i # j => q[i] # q[j]}}
\* every canonical field, inserted in reverse order
FullMapReversed ==
    [i \in 1..Len(order) |->
        [k |-> order[Len(order) + 1 - i], v |-> Chars("v") \o Chars(order[i])]]

\* ------------------------------------------------------------------------
\* convert_with_fix as a state machine
\* ------------------------------------------------------------------------

InitCommon ==
    /\ hints = EmptyMap
    /\ cut_parse = -1
    /\ cut_rewrite = -1
    /\ rewritten = <<>>
    /\ fixed_md = <<>>
    /\ first_out = <<>>
    /\ run = 1

\* the converter has produced md_text for pdf_path
Init ==
    /\ pc = "parse"
    /\ md_text \in Docs
    /\ pdf_path \in {PathBoth, PathEmpNo, PathNone}
    /\ header_keys = CanonicalKeys
    /\ header_map = EmptyMap
    /\ InitCommon

\* header_map = parse_header_pairs(md_text, pdf_path)
ParseHeaderPairs ==
    /\ pc = "parse"
    /\ hints' = extract_filename_hints(pdf_path)
    /\ cut_parse' = CutIndex(md_text)
    /\ header_map' = parse_header_pairs(md_text, pdf_path)
    /\ pc' = "rewrite"
    /\ UNCHANGED <<pdf_path, md_text, header_keys, cut_rewrite, rewritten,
                   fixed_md, first_out, run>>

\* fixed_md = rewrite_header(md_text, header_map)
RewriteHeader ==
    /\ pc = "rewrite"
    /\ cut_rewrite' = CutIndex(md_text)
    /\ rewritten' = rewrite_header(md_text, header_map)
    /\ pc' = "clean"
    /\ UNCHANGED <<pdf_path, md_text, header_keys, hints, header_map, cut_parse,
                   fixed_md, first_out, run>>

\* fixed_md = _clean_first_table(fixed_md, {...})
CleanFirstTable ==
    /\ pc = "clean"
    /\ fixed_md' = clean_first_table(rewritten, header_keys)
    /\ pc' = "done"
    /\ UNCHANGED <<pdf_path, md_text, header_keys, hints, header_map, cut_parse,
                   cut_rewrite, rewritten, first_out, run>>

\* the pipeline is run again on the text it wrote
Rerun ==
    /\ pc = "done"
    /\ run < MaxRuns
    /\ md_text' = fixed_md
    /\ first_out' = fixed_md
    /\ run' = run + 1
    /\ pc' = "parse"
    /\ UNCHANGED <<pdf_path, header_keys, hints, header_map, cut_parse,
                   cut_rewrite, rewritten, fixed_md>>

Next == ParseHeaderPairs \/ RewriteHeader \/ CleanFirstTable \/ Rerun

Spec == Init /\ [][Next]_vars

\* one join line built from segments, no filename hints
InitJoin ==
    /\ pc = "parse"
    /\ md_text \in JoinDocs
    /\ pdf_path = PathNone
    /\ header_keys = CanonicalKeys
    /\ header_map = EmptyMap
    /\ InitCommon

SpecJoin == InitJoin /\ [][Next]_vars

\* file names built from tokens
InitHints ==
    /\ pc = "parse"
    /\ md_text = Chars("Asha Rao\n9001\n| Basic | 1000 |\n")
    /\ pdf_path \in TokenPaths
    /\ header_keys = CanonicalKeys
    /\ header_map = EmptyMap
    /\ InitCommon

SpecHints == InitHints /\ [][Next]_vars

\* rewrite_header and _clean_first_table on any header mapping, any text with
\* tables and other header_keys
InitRewrite ==
    /\ pc = "rewrite"
    /\ pdf_path = PathNone
    /\ \/ /\ md_text \in TableDocs
          /\ header_map \in {EmptyMap, MapOf(<<"PAN", "Name">>)}
          /\ header_keys \in {CanonicalKeys, OddKeys}
       \/ /\ md_text \in {Chars("x\n| Item | Amount |\n"), Chars("no table\n")}
          /\ header_map \in Maps \cup {FullMapReversed}
          /\ header_keys = CanonicalKeys
    /\ InitCommon

NextRewrite == RewriteHeader \/ CleanFirstTable

SpecRewrite == InitRewrite /\ [][NextRewrite]_vars

\* ------------------------------------------------------------------------
\* Claims
\* ------------------------------------------------------------------------

\* the header region of md_text as parse_header_pairs cut it, as lines
HeaderRegion == Slice(md_text, 0, cut_parse)
Parsed == pc \in {"rewrite", "clean", "done"} /\ cut_parse # -1

\* C1: running the pipeline on its own output changes nothing: the text
\* written by a run whose input was the previous run's output equals that
\* input (run(run(T)) = run(T)).
C1_Idempotent == (pc = "done" /\ run >= 2) => fixed_md = first_out

\* C2: a join line "<date> <1-3 digits> <bank name> <10+ digits> <IFSC>
\* <location>" yields Date of Joining, Payable Days, Bank Name (the text
\* between the Payable Days and Bank Account tokens), Bank Account, IFS Code
\* and Location.
C2_IsDays(w) == Len(w) \in 1..3 /\ IsDigitStr(w)
C2_IsAcct(w) == Len(w) >= 10 /\ IsDigitStr(w)
C2_IsDate(w) == DateEnd(w, 0) = Len(w)
C2_IsIfsc(w) == IfscEnd(w, 0) = Len(w)
\* the words of ln, when ln has the claim's form with the account at word a
C2_HasForm(w, a) ==
    /\ a >= 4 /\ Len(w) >= a + 2
    /\ C2_IsDate(w[1]) /\ C2_IsDays(w[2])
    /\ \A i \in 3..(a - 1) : FullAlpha(w[i])
    /\ C2_IsAcct(w[a]) /\ C2_IsIfsc(w[a + 1])
    /\ \A i \in (a + 2)..Len(w) : FullAlpha(w[i])
C2_Expected(w, a) ==
    [date |-> w[1], days |-> w[2],
     bank |-> JoinWith(SubSeq(w, 3, a - 1), <<" ">>),
     acct |-> w[a], ifsc |-> w[a + 1],
     loc  |-> JoinWith(SubSeq(w, a + 2, Len(w)), <<" ">>)]
C2_Got ==
    [date |-> Get(header_map, "Date of Joining"),
     days |-> Get(header_map, "Payable Days"),
     bank |-> Get(header_map, "Bank Name"),
     acct |-> Get(header_map, "Bank Account"),
     ifsc |-> Get(header_map, "IFS Code"),
     loc  |-> Get(header_map, "Location")]
C2_JoinLineFields ==
    Parsed =>
        LET hl == HeaderLines(HeaderRegion)
            ji == FirstIdx(hl, IsJoinLine)
        IN  ji # 0 =>
                LET w == SplitOn(hl[ji], " ")
                IN  \A a \in 1..Len(w) : C2_HasForm(w, a) => C2_Got = C2_Expected(w, a)

\* --- rewrite_header and _clean_first_table as seen from outside ---

Rewritten == pc \in {"clean", "done"}
Cleaned == pc = "done"

\* the body region: the input text from the cut index onward
BodyRegion == From(md_text, cut_rewrite)
\* the header block of the rewritten text: what precedes the body region
HeaderBlock == Slice(rewritten, 0, Len(rewritten) - Len(BodyRegion))

\* the lines of seq at the indexes 1..Len(seq) outside D
Without(seq, D) == SelectIdx(seq, (1..Len(seq)) \ D)

\* the first table of lines: the indexes of the first maximal run of
\* contiguous lines whose stripped form starts with "|"
StartsWithBar(ln) == \E i \in 1..Len(ln) :
    ln[i] = "|" /\ \A k \in 1..(i - 1) : ln[k] \in SpaceSet
FirstTable(lines) ==
    LET bars == {i \in 1..Len(lines) : StartsWithBar(lines[i])}
    IN  {i \in bars : \A m \in MinOf(bars)..i : m \in bars}

\* C3: rewrite_header's result is the clean header block followed by the
\* input text from the cut index onward, unchanged; _clean_first_table then
\* only deletes whole lines of the first table of that body region.
C3_FirstTableOfBody ==
    LET nh == Len(SplitLinesKeep(HeaderBlock))
        bt == FirstTable(SplitLinesKeep(BodyRegion))
    IN  {nh + i : i \in bt}
C3_NonDestructiveBody ==
    /\ Rewritten =>
          /\ Len(rewritten) >= Len(BodyRegion)
          /\ From(rewritten, Len(rewritten) - Len(BodyRegion)) = BodyRegion
          /\ \A i \in 1..Len(SplitLinesKeep(HeaderBlock)) :
                ~StartsWithBar(SplitLinesKeep(HeaderBlock)[i])
    /\ Cleaned =>
          \E D \in SUBSET C3_FirstTableOfBody :
              SplitLinesKeep(fixed_md) = Without(SplitLinesKeep(rewritten), D)
\* a row of the first table was deleted while a later table kept a row that
\* holds a field name
C3_Witness ==
    /\ Cleaned
    /\ fixed_md # rewritten
    /\ LET lines == SplitLinesKeep(rewritten)
       IN  \E i \in 1..Len(lines) :
               /\ i \notin FirstTable(lines)
               /\ StartsWithBar(lines[i])
               /\ Contains(lines[i], Chars("PAN"))
               /\ \E j \in 1..Len(SplitLinesKeep(fixed_md)) :
                      SplitLinesKeep(fixed_md)[j] = lines[i]

\* C4: _clean_first_table never removes a line of the first table that is
\* composed solely of "-", ":", "|" and space.
C4_OnlySeparatorChars(ln) ==
    \A i \in 1..Len(ln) : ln[i] \in {"-", ":", "|", " ", "\n"}
C4_AlignmentRows ==
    {i \in FirstTable(SplitLinesKeep(rewritten)) :
        C4_OnlySeparatorChars(SplitLinesKeep(rewritten)[i])}
C4_AlignmentPreserved ==
    Cleaned =>
        \E D \in SUBSET (1..Len(SplitLinesKeep(rewritten))) :
            /\ D \cap C4_AlignmentRows = {}
            /\ SplitLinesKeep(fixed_md) = Without(SplitLinesKeep(rewritten), D)
\* an alignment row that holds one of the keys was kept while another row
\* was removed
C4_Witness ==
    /\ Cleaned
    /\ fixed_md # rewritten
    /\ \E i \in C4_AlignmentRows : \E k \in header_keys :
           Contains(SplitLinesKeep(rewritten)[i], k)

\* C6: the header block is one line "**<key>**: <value>" per field of the
\* mapping, in the canonical order whatever the insertion order, nothing for
\* an absent field, then a blank line.
C6_CanonicalOrder ==
    <<"Name", "Designation", "EmpNo", "PAN", "UAN", "PF No.", "E.S.I. No.",
      "Date of Joining", "Payable Days", "Bank Name", "Bank Account",
      "IFS Code", "Location">>
C6_ExpectedLines ==
    LET present == SelectIdx(C6_CanonicalOrder,
                       {i \in 1..Len(C6_CanonicalOrder) :
                           HasKey(header_map, C6_CanonicalOrder[i])})
    IN  [i \in 1..Len(present) |->
            Chars("**") \o Chars(present[i]) \o Chars("**: ")
            \o Get(header_map, present[i])]
C6_HeaderOrder ==
    Rewritten =>
        LET lines == SplitLines(HeaderBlock)
            n == Len(C6_ExpectedLines)
        IN  /\ Len(lines) > n
            /\ SubSeq(lines, 1, n) = C6_ExpectedLines
            /\ \A i \in (n + 1)..Len(lines) : lines[i] = <<>>
            /\ n > 0 => Len(lines) = n + 1
\* a mapping whose insertion order is not the canonical order was written
C6_Witness ==
    /\ Rewritten
    /\ Len(header_map) >= 2
    /\ [i \in 1..Len(header_map) |-> header_map[i].k]
           # SelectIdx(C6_CanonicalOrder,
                 {i \in 1..Len(C6_CanonicalOrder) : HasKey(header_map, C6_CanonicalOrder[i])})

\* C7: a line of the first table is removed iff it is no alignment row and
\* its lower-cased text holds a vocabulary token; the other lines stay, in
\* order; with no table, or no row to remove, the text is returned as is.
C7_Vocabulary ==
    {Lower(k) : k \in header_keys}
    \cup {Chars("date of joining"), Chars("payable days"), Chars("bank name"),
          Chars("bank account"), Chars("ifs code"), Chars("location")}
\* the stripped line with the delimiters removed holds only "-", ":", " "
C7_IsAlignment(ln) ==
    \A i \in 1..Len(Strip(ln)) : Strip(ln)[i] \in {"-", ":", " ", "|"}
C7_Removed ==
    {i \in FirstTable(SplitLinesKeep(rewritten)) :
        /\ ~C7_IsAlignment(SplitLinesKeep(rewritten)[i])
        /\ \E tok \in C7_Vocabulary : Contains(Lower(SplitLinesKeep(rewritten)[i]), tok)}
C7_RowFilterExact ==
    Cleaned =>
        /\ SplitLinesKeep(fixed_md) = Without(SplitLinesKeep(rewritten), C7_Removed)
        /\ C7_Removed = {} => fixed_md = rewritten
\* a row was removed from between two rows that were kept
C7_Witness ==
    /\ Cleaned
    /\ \E i \in C7_Removed :
           /\ i - 1 \in FirstTable(SplitLinesKeep(rewritten)) \ C7_Removed
           /\ i + 1 \in FirstTable(SplitLinesKeep(rewritten)) \ C7_Removed

\* --- extract_filename_hints ---

C5_Tokens == SplitOn(Stem(pdf_path), "_")
C5_Last == C5_Tokens[Len(C5_Tokens)]
C5_AllDigits(t) == \A i \in 1..Len(t) : t[i] \in DigitSet
C5_AllLetters(t) == \A i \in 1..Len(t) : t[i] \in UpperSet \cup LowerSet
C5_Capitalized(t) == Len(t) >= 2 /\ t[1] \in UpperSet /\ C5_AllLetters(t)
C5_NameCase ==
    /\ Len(C5_Tokens) >= 4
    /\ C5_Tokens[Len(C5_Tokens) - 1] # <<>>
    /\ C5_AllLetters(C5_Tokens[Len(C5_Tokens) - 1])
    /\ C5_Capitalized(C5_Tokens[Len(C5_Tokens) - 2])
    /\ C5_Capitalized(C5_Tokens[Len(C5_Tokens) - 1])
C5_Candidate ==
    C5_Tokens[Len(C5_Tokens) - 2] \o <<" ">> \o C5_Tokens[Len(C5_Tokens) - 1]
C5_NameRule ==
    /\ HasKey(hints, "Name") <=> C5_NameCase
    /\ HasKey(hints, "Name") => Get(hints, "Name") = C5_Candidate
    /\ HasKey(hints, "EmpNo") => Get(hints, "EmpNo") = C5_Last
    /\ \A i \in 1..Len(hints) : hints[i].k \in {"EmpNo", "Name"}

\* C5 as stated: whatever the number of tokens, EmpNo is recorded, as the
\* last token, exactly when the last token is a run of 4 or more digits;
\* Name is "<third-to-last> <second-to-last>" exactly when there are at least
\* 4 tokens, the second-to-last is alphabetic and the candidate is two
\* capitalized words; no other key is present.
C5_FilenameHints ==
    Parsed =>
        /\ HasKey(hints, "EmpNo") <=> (Len(C5_Last) >= 4 /\ C5_AllDigits(C5_Last))
        /\ C5_NameRule

\* C5 amended: EmpNo is recorded exactly when there are at least 3 tokens and
\* the last one is a run of 4 or more digits; the rest as stated.
C5_FilenameHintsFrom3 ==
    Parsed =>
        /\ HasKey(hints, "EmpNo") <=>
               (Len(C5_Tokens) >= 3 /\ Len(C5_Last) >= 4 /\ C5_AllDigits(C5_Last))
        /\ C5_NameRule
\* a name of three tokens gave EmpNo and no Name
C5_Witness ==
    /\ Parsed
    /\ Len(C5_Tokens) = 3
    /\ HasKey(hints, "EmpNo")
    /\ ~HasKey(hints, "Name")
    /\ C5_Capitalized(C5_Tokens[1]) /\ C5_Capitalized(C5_Tokens[2])

\* --- the header block locator ---

C8_MarkerAt(p) == \E i \in 1..Len(Markers) : OccursAt(md_text, Markers[i], p)
C8_MarkerOffsets == {p \in 0..Len(md_text) : C8_MarkerAt(p)}
C8_Earliest(cut) ==
    IF C8_MarkerOffsets = {} THEN cut = Len(md_text)
    ELSE cut = MinOf(C8_MarkerOffsets)
C8_BeginsWithMarker(ln) ==
    \/ Len(ln) >= 1 /\ ln[1] = "|"
    \/ Len(ln) >= 2 /\ SubSeq(ln, 1, 2) = <<"#", " ">>
    \/ Len(ln) >= 3 /\ SubSeq(ln, 1, 3) = <<"#", "#", " ">>

\* C8: the cut index of parse_header_pairs and the one of rewrite_header are
\* the same value, the earliest offset of a table-row, level-2 or level-1
\* heading marker (the length of the text when there is none), and hence no
\* line of the header region, the first line included, begins with "|" or
\* with a "#"/"##" heading marker.
C8_HeaderBlockLocator ==
    /\ Parsed => C8_Earliest(cut_parse)
    /\ Rewritten => cut_rewrite = cut_parse
    /\ Parsed => \A i \in 1..Len(SplitLines(HeaderRegion)) :
                     ~C8_BeginsWithMarker(SplitLines(HeaderRegion)[i])

\* --- the join line ---

C9_JoinLine == HeaderLines(HeaderRegion)[1]
C9_Spans ==
    LET j == JoinMatches(C9_JoinLine)
    IN  [date |-> <<j.date_m.start, j.date_m.end>>,
         days |-> <<j.off1 + j.days_m.start, j.off1 + j.days_m.end>>,
         acct |-> <<j.off2 + j.acct_m.start, j.off2 + j.acct_m.end>>,
         ifsc |-> <<j.off2 + j.ifsc_m.start, j.off2 + j.ifsc_m.end>>]
C9_Disjoint(a, b) == a[2] <= b[1] \/ b[2] <= a[1]
C9_Text(span) == Slice(C9_JoinLine, span[1], span[2])
C9_Case ==
    /\ Parsed
    /\ HeaderLines(HeaderRegion) # <<>>
    /\ \A k \in {"Date of Joining", "IFS Code", "Payable Days", "Bank Account"} :
           HasKey(header_map, k)

\* C9: on a join line with a date, an IFSC token and two numeric runs,
\* Payable Days and Bank Account are different strings taken from spans of
\* the line that overlap neither each other, nor the IFSC token, nor the
\* date.
C9_DisjointNumeric ==
    C9_Case =>
        /\ Get(header_map, "Payable Days") # Get(header_map, "Bank Account")
        /\ C9_Text(C9_Spans.date) = Get(header_map, "Date of Joining")
        /\ C9_Text(C9_Spans.days) = Get(header_map, "Payable Days")
        /\ C9_Text(C9_Spans.acct) = Get(header_map, "Bank Account")
        /\ C9_Text(C9_Spans.ifsc) = Get(header_map, "IFS Code")
        /\ C9_Disjoint(C9_Spans.days, C9_Spans.acct)
        /\ \A n \in {"days", "acct"} :
               /\ C9_Disjoint(C9_Spans[n], C9_Spans.date)
               /\ C9_Disjoint(C9_Spans[n], C9_Spans.ifsc)
\* the four fields were taken from one line, the days right after the date
C9_Witness ==
    /\ C9_Case
    /\ C9_Spans.days[1] = C9_Spans.date[2] + 1
    /\ C9_Spans.acct[1] > C9_Spans.days[2]

\* --- the filename hints in parse_header_pairs ---

C10_Lines == HeaderLines(HeaderRegion)
C10_Taken == {Get(header_map, k) : k \in {"UAN", "Bank Account", "Payable Days"}}
C10_IsEmpNoLine(ln) ==
    /\ Len(ln) >= 4 /\ Len(ln) <= 8
    /\ \A i \in 1..Len(ln) : ln[i] \in DigitSet
    /\ ln \notin C10_Taken
C10_EmpNoLines == {i \in 1..Len(C10_Lines) : C10_IsEmpNoLine(C10_Lines[i])}

\* C10: a Name hint is the mapping's Name and an EmpNo hint is its EmpNo,
\* whatever the header region holds; without an EmpNo hint, EmpNo is the
\* first header line that is a 4-8 digit token not already placed in UAN,
\* Bank Account or Payable Days, and is absent when there is no such line.
C10_HintsPrecedence ==
    Parsed =>
        /\ HasKey(hints, "Name") => Get(header_map, "Name") = Get(hints, "Name")
        /\ HasKey(hints, "EmpNo") => Get(header_map, "EmpNo") = Get(hints, "EmpNo")
        /\ ~HasKey(hints, "EmpNo") =>
               IF C10_EmpNoLines = {} THEN ~HasKey(header_map, "EmpNo")
               ELSE Get(header_map, "EmpNo") = C10_Lines[MinOf(C10_EmpNoLines)]
\* both hints won over a name line and a number line of the header region
C10_Witness ==
    /\ Parsed
    /\ HasKey(hints, "Name") /\ HasKey(hints, "EmpNo")
    /\ C10_EmpNoLines # {}
    /\ \E i \in 1..Len(C10_Lines) :
           FullNameShape(C10_Lines[i]) /\ C10_Lines[i] # Get(hints, "Name")

\* --- UAN and Bank Account ---

\* C11: the mapping returned by parse_header_pairs never has UAN and Bank
\* Account both present with the same value: a 12-digit run chosen as the
\* join line's Bank Account is not also reported as UAN.
C11_UanNotBankAccount ==
    Parsed =>
        ~(/\ HasKey(header_map, "UAN")
          /\ HasKey(header_map, "Bank Account")
          /\ Get(header_map, "UAN") = Get(header_map, "Bank Account"))

====
